---- MODULE Spec2Model ----
(***************************************************************************)
(* Model of game-logs-processor: the streaming merge of the inventory and  *)
(* money logs (src/src/combiner.py), the line readers it pulls from        *)
(* (src/src/parsers.py) and the aggregation of events into player and item *)
(* statistics (src/src/state.py).                                          *)
(*                                                                         *)
(* A log file is a sequence of lines.  A line is abstracted to what its    *)
(* parser makes of it: a rejected (blank or malformed) line, or an event   *)
(* with a timestamp.  The text written to combined_log.txt is abstracted   *)
(* to the (source, event) pair each written line is formatted from.        *)
(*                                                                         *)
(* Spec is merge_logs_to_file on any two files.  AggSpec is a GameState    *)
(* to which inventory and money events are applied in any order; next to   *)
(* the program's state it keeps a record of what was applied (applied,     *)
(* net_applied, money_added, money_removed, floored, round_trip), which    *)
(* the program does not read.  TimedSpec is the same GameState under       *)
(* events of differing timestamps, the applied events kept in applied_log. *)
(***************************************************************************)
EXTENDS Integers, Sequences, FiniteSets, TLC

\* ------------------------------------------------------------------ bounds
MaxLines == 3       \* lines per log file in the merge
MaxTs == 2          \* timestamps are 1..MaxTs

MaxPlayer == 2      \* player ids are 1..MaxPlayer
MaxItem == 2        \* item type ids are 1..MaxItem
MaxAmount == 2      \* item amounts are 1..MaxAmount, money amounts -1..MaxAmount
MaxPairs == 2       \* (item_type_id, amount) pairs per inventory event
MaxEvents == 3      \* events applied to one GameState
MaxSeeded == 1      \* players 1..MaxSeeded are listed in db.json
MaxAggTs == 1
MaxTokens == 5
MaxOwners == 2
MaxHolders == 11
MaxMixed == 2
MaxQueries == 2
MaxPipeEvents == 2       \* timestamps of the events applied to a GameState are 1..MaxAggTs

Timestamps == 1..MaxTs
PlayerIds == 1..MaxPlayer
Items == 1..MaxItem
Amounts == 1..MaxAmount
\* int() accepts a sign: the amount of a money event may be negative.
MoneyAmounts == (-1)..MaxAmount
AggTimestamps == 1..MaxAggTs

\* A value that stands for Python's None.
None == [none |-> TRUE]

SeqsUpTo(S, n) == UNION {[1..k -> S] : k \in 0..n}

\* --------------------------------------------------------------- variables
VARIABLES
    inventory_file,     \* lines of inventory_logs.txt
    money_file,         \* lines of money_logs.txt
    inventory_iter,     \* generator iter_inventory_events: lines consumed, finished
    money_iter,         \* generator iter_money_events
    heap,               \* the heapq list, as the set of its tuples
    inventory_order,
    money_order,
    inventory_count,
    money_count,
    handle,             \* lines written to the combined log, in order
    source,             \* source of the tuple popped in this loop iteration
    pc,                 \* position in merge_logs_to_file
    players,            \* PlayerRegistry._players: player_id -> Player
    item_stats,         \* the ItemStatistics of the GameState
    applied,            \* number of events applied to the GameState
    net_applied,        \* per item: signed sum of all amounts of all applied pairs
    money_added,        \* per player: sum of the amounts of applied MONEY_ADD events
    money_removed,      \* per player: sum of the amounts of applied MONEY_REMOVE events
    floored,            \* the floor of update_owner_count has been taken
    round_trip,         \* an ITEM_ADD / ITEM_REMOVE pair in progress
    applied_log,        \* the events applied to the GameState, in order (TimedSpec)
    mention_events,     \* per item: number of applied inventory events listing it
    reader_kind,        \* ReaderSpec: which log is read, "inventory" or "money"
    reader_file,        \* ReaderSpec: the lines of the log
    reader_iter,        \* ReaderSpec: the generator of iter_*_events
    yielded,            \* ReaderSpec: the events the generator has yielded
    owner_call,         \* OwnerSpec: the last call of update_owner_count
    instream,           \* InteractiveSpec: the input lines read so far
    outstream,          \* InteractiveSpec: per input line read, the lines written
    pipe_inventory,     \* PipelineSpec: the events of the inventory log
    pipe_money,         \* PipelineSpec: the events of the money log
    dict_order,         \* PipelineSpec: how a dict orders its keys when iterated
    merged              \* PipelineSpec: the GameState fed in merged order

mergeVars == <<inventory_file, money_file, inventory_iter, money_iter, heap,
               inventory_order, money_order, inventory_count, money_count,
               handle, source, pc>>

aggVars == <<players, item_stats, applied, net_applied, money_added,
             money_removed, floored, round_trip, applied_log,
             mention_events>>

unitVars == <<reader_kind, reader_file, reader_iter, yielded, owner_call>>

runVars == <<instream, outstream, pipe_inventory, pipe_money, dict_order, merged>>

vars == <<mergeVars, aggVars, unitVars, runVars>>

\* ------------------------------------------------------------- the readers
RejectedLine == [valid |-> FALSE, timestamp |-> 0]
Lines == {RejectedLine} \cup [valid : {TRUE}, timestamp : Timestamps]

\* parse_inventory_line / parse_money_line on an abstract line: None for a
\* blank or malformed line, otherwise the event with its line number.
parse_line(line, line_no) ==
    IF line.valid
    THEN [timestamp |-> line.timestamp, line_no |-> line_no]
    ELSE None

\* The for loop of iter_*_events resumed at line j: the index of the first
\* line from j on that parses to an event, 0 when the file ends first.
RECURSIVE ScanFrom(_, _)
ScanFrom(file, j) ==
    IF j > Len(file) THEN 0
    ELSE IF parse_line(file[j], j) # None THEN j
    ELSE ScanFrom(file, j + 1)

NewIter == [pos |-> 0, finished |-> FALSE]

\* next(iterator): the yielded event (None for StopIteration) and the
\* generator's state afterwards.
next_event(file, it) ==
    IF it.finished THEN [event |-> None, iter |-> it]
    ELSE LET j == ScanFrom(file, it.pos + 1) IN
         IF j = 0
         THEN [event |-> None, iter |-> [pos |-> Len(file), finished |-> TRUE]]
         ELSE [event |-> parse_line(file[j], j),
               iter |-> [pos |-> j, finished |-> FALSE]]

\* The events a complete pass over a file yields, in order.
RECURSIVE EventsFrom(_, _)
EventsFrom(file, j) ==
    IF j > Len(file) THEN <<>>
    ELSE IF parse_line(file[j], j) # None
         THEN <<parse_line(file[j], j)>> \o EventsFrom(file, j + 1)
         ELSE EventsFrom(file, j + 1)

iter_events(file) == EventsFrom(file, 1)

\* ------------------------------------------------- the parsers, on tokens
\* str.strip on the texts that carry surrounding whitespace.
Stripped ==
    (" " :> "") @@ (" 2" :> "2") @@ (" MONEY_REMOVE" :> "MONEY_REMOVE")

strip(text) == IF text \in DOMAIN Stripped THEN Stripped[text] ELSE text

\* int(): the texts that convert, with their values; any other text raises
\* ValueError.  int() ignores surrounding whitespace.
IntValue == ("1" :> 1) @@ ("2" :> 2) @@ ("-1" :> (-1))

IsInt(text) == strip(text) \in DOMAIN IntValue

int(text) == IntValue[strip(text)]

\* \d+ of _INVENTORY_LINE_RE
IsDigits(text) == text \in {"1", "2"}

\* The texts a comma-separated field of a line is drawn from.
RawTokens == {"1", " 2", "-1", "x", " "}

\* A line of inventory_logs.txt: blank, of another form, or of the form
\* [timestamp] action | player_id, (items_blob), the blob given as the
\* texts between its commas (at least one, as str.split gives).
InventoryLine(shape, timestamp, action, player_id, items_blob) ==
    [shape |-> shape, timestamp |-> timestamp, action |-> action,
     player_id |-> player_id, items_blob |-> items_blob]

BlankLine == InventoryLine("blank", "", "", "", <<>>)

OtherLine == InventoryLine("other", "", "", "", <<>>)

InventoryLines ==
    {BlankLine, OtherLine} \cup
    {InventoryLine("inventory", ts, action, "1", blob) :
        ts \in {"1"}, action \in {"ITEM_ADD", "ITEM_REMOVE"},
        blob \in SeqsUpTo(RawTokens, MaxTokens) \ {<<>>}} \cup
    {InventoryLine("inventory", ts, action, pid, <<"1", " 2">>) :
        ts \in {"1", "x"}, action \in {"ITEM_ADD", "ITEM_DROP"},
        pid \in {"2", "-1"}}

\* The lines the files of several lines are made of.
SimpleInventoryLines ==
    {BlankLine, OtherLine} \cup
    {InventoryLine("inventory", ts, "ITEM_ADD", "1", blob) :
        ts \in {"1", "2", "x"}, blob \in {<<"1", " 2">>, <<"1">>}}

\* _INVENTORY_LINE_RE.match(text)
InventoryLineMatches(line) ==
    /\ line.shape = "inventory"
    /\ IsDigits(line.timestamp)
    /\ line.action \in {"ITEM_ADD", "ITEM_REMOVE"}
    /\ IsDigits(line.player_id)

\* The tokens of the blob with the blank ones kept.
ItemsTokens_KeepBlank(items_blob) ==
    [k \in DOMAIN items_blob |-> strip(items_blob[k])]

\* [token.strip() for token in items_blob.split(",") if token.strip()]
ItemsTokens(items_blob) ==
    SelectSeq([k \in DOMAIN items_blob |-> strip(items_blob[k])],
              LAMBDA token : token # "")

\* parse_inventory_line: the InventoryEvent, or None
parse_inventory_line(line, line_no) ==
    IF line.shape = "blank" THEN None
    ELSE IF ~InventoryLineMatches(line) THEN None
    ELSE LET items_tokens == ItemsTokens(line.items_blob) IN
         IF Len(items_tokens) % 2 # 0 THEN None
         ELSE IF \E k \in DOMAIN items_tokens : ~IsInt(items_tokens[k]) THEN None
         ELSE [timestamp |-> int(line.timestamp),
               player_id |-> int(line.player_id),
               action |-> line.action,
               items |-> [k \in 1..(Len(items_tokens) \div 2) |->
                            <<int(items_tokens[2 * k - 1]), int(items_tokens[2 * k])>>],
               line_no |-> line_no]

\* A line of money_logs.txt: blank, with fewer than three |-separated
\* parts ("other"), with fewer than three comma-separated parts in the third
\* ("short_payload"), or timestamp|player_id|action,amount,reason.
MoneyLine(shape, timestamp_raw, player_raw, action, amount_raw, reason) ==
    [shape |-> shape, timestamp_raw |-> timestamp_raw, player_raw |-> player_raw,
     action |-> action, amount_raw |-> amount_raw, reason |-> reason]

MoneyLines ==
    {MoneyLine(shape, "", "", "", "", "") :
        shape \in {"blank", "other", "short_payload"}} \cup
    {MoneyLine("money", ts, "1", action, amount, " ") :
        ts \in {"1", " 2", "x"},
        action \in {"MONEY_ADD", " MONEY_REMOVE", "MONEY_GIVE"},
        amount \in {"1", "-1", "x"}}

SimpleMoneyLines ==
    {MoneyLine(shape, "", "", "", "", "") : shape \in {"blank", "other"}} \cup
    {MoneyLine("money", ts, "1", "MONEY_ADD", amount, " ") :
        ts \in {"1", " 2", "x"}, amount \in {"1", "x"}}

_MONEY_ALLOWED_ACTIONS == {"MONEY_ADD", "MONEY_REMOVE"}

\* parse_money_line: the MoneyEvent, or None
parse_money_line(line, line_no) ==
    IF line.shape = "blank" THEN None
    ELSE IF line.shape = "other" THEN None
    ELSE IF line.shape = "short_payload" THEN None
    ELSE IF strip(line.action) \notin _MONEY_ALLOWED_ACTIONS THEN None
    ELSE IF ~(IsInt(line.timestamp_raw) /\ IsInt(line.player_raw)
              /\ IsInt(line.amount_raw)) THEN None
    ELSE [timestamp |-> int(line.timestamp_raw),
          player_id |-> int(line.player_raw),
          action |-> strip(line.action),
          amount |-> int(line.amount_raw),
          reason |-> strip(line.reason),
          line_no |-> line_no]

\* The parser iter_inventory_events or iter_money_events applies to a line.
parse_by_kind(kind, line, line_no) ==
    IF kind = "inventory"
    THEN parse_inventory_line(line, line_no)
    ELSE parse_money_line(line, line_no)

\* A loop that ends at the first line that gives no event.
RECURSIVE StreamScanFrom_StopAtRejected(_, _, _)
StreamScanFrom_StopAtRejected(kind, file, j) ==
    IF j > Len(file) THEN 0
    ELSE IF parse_by_kind(kind, file[j], j) # None THEN j
    ELSE 0

\* The for loop of iter_inventory_events / iter_money_events resumed at line
\* j: the index of the first line from j on that gives an event, 0 when the
\* file ends first.
RECURSIVE StreamScanFrom(_, _, _)
StreamScanFrom(kind, file, j) ==
    IF j > Len(file) THEN 0
    ELSE IF parse_by_kind(kind, file[j], j) # None THEN j
    ELSE StreamScanFrom(kind, file, j + 1)

\* A generator that has read one line past the one it yields.
stream_next_LookAhead(kind, file, it) ==
    IF it.finished THEN [event |-> None, iter |-> it]
    ELSE LET j == StreamScanFrom(kind, file, it.pos + 1) IN
         IF j = 0
         THEN [event |-> None, iter |-> [pos |-> Len(file), finished |-> TRUE]]
         ELSE [event |-> parse_by_kind(kind, file[j], j),
               iter |-> [pos |-> IF j < Len(file) THEN j + 1 ELSE j,
                         finished |-> FALSE]]

\* next() on the generator of iter_inventory_events / iter_money_events: the
\* yielded event (None for StopIteration) and the generator afterwards.
stream_next(kind, file, it) ==
    IF it.finished THEN [event |-> None, iter |-> it]
    ELSE LET j == StreamScanFrom(kind, file, it.pos + 1) IN
         IF j = 0
         THEN [event |-> None, iter |-> [pos |-> Len(file), finished |-> TRUE]]
         ELSE [event |-> parse_by_kind(kind, file[j], j),
               iter |-> [pos |-> j, finished |-> FALSE]]

\* ---------------------------------------------------------------- the heap
MONEY_PRIORITY == 1

\* The inventory priority as it would be were inventory ranked after money.
INVENTORY_PRIORITY_AfterMoney == MONEY_PRIORITY + 1

INVENTORY_PRIORITY == 0

HeapItem(ts, priority, order, src, event) ==
    [timestamp |-> ts, priority |-> priority, order |-> order,
     source |-> src, event |-> event]

\* A comparison that leaves the timestamp out of the key.
TupleLess_NoTimestamp(a, b) ==
    \/ a.priority < b.priority
    \/ a.priority = b.priority /\ a.order < b.order

\* Python's tuple comparison on (timestamp, priority, order, ...).  The first
\* three components of two tuples in the heap never all tie, so the source
\* string and the event are never compared.
TupleLess(a, b) ==
    \/ a.timestamp < b.timestamp
    \/ /\ a.timestamp = b.timestamp
       /\ \/ a.priority < b.priority
          \/ a.priority = b.priority /\ a.order < b.order

\* A push that overwrites the list instead of adding to it.
heappush_Overwrite(h, item) == {item}

heappush(h, item) == h \cup {item}

\* The tuple heapq.heappop returns: the smallest.
HeapTop(h) == CHOOSE x \in h : \A y \in h \ {x} : TupleLess(x, y)

heappop(h) == h \ {HeapTop(h)}

\* -------------------------------------------------------- Python dictionaries
EmptyDict == <<>>

\* d.get(k, default), and d[k] of a defaultdict(int) with default 0
DictGet(d, k, default) == IF k \in DOMAIN d THEN d[k] ELSE default

\* d[k] = v
DictSet(d, k, v) == [x \in (DOMAIN d) \cup {k} |-> IF x = k THEN v ELSE d[x]]

\* The orders in which a dictionary's keys can be iterated: insertion order
\* or hash order, depending on the interpreter; any order is allowed for.
KeyOrders(d) ==
    {order \in [1..Cardinality(DOMAIN d) -> DOMAIN d] :
        \A i, j \in DOMAIN order : i # j => order[i] # order[j]}

\* ------------------------------------------------------------------- Player
\* first_event_ts / last_event_ts of a player without events (None).
NoneTs == -1

\* Player.__init__ (the level is stored and never read by the aggregation)
Player(player_id, name) ==
    [player_id |-> player_id, name |-> name, money |-> 0,
     inventory |-> EmptyDict, first_event_ts |-> NoneTs, last_event_ts |-> NoneTs]

\* An activity record that keeps the smallest timestamp as the first.
update_activity_Earliest(player, timestamp) ==
    [player EXCEPT
        !.first_event_ts = IF @ = NoneTs \/ timestamp < @ THEN timestamp ELSE @,
        !.last_event_ts = timestamp]

\* Player.update_activity
update_activity(player, timestamp) ==
    [player EXCEPT
        !.first_event_ts = IF @ = NoneTs THEN timestamp ELSE @,
        !.last_event_ts = timestamp]

\* A balance that is not allowed to fall below zero.
apply_money_Clamped(player, action, amount, timestamp) ==
    LET p == update_activity(player, timestamp)
        m == IF action = "MONEY_ADD" THEN p.money + amount
             ELSE IF action = "MONEY_REMOVE" THEN p.money - amount
             ELSE p.money
    IN [p EXCEPT !.money = IF m < 0 THEN 0 ELSE m]

\* Player.apply_money
apply_money(player, action, amount, timestamp) ==
    LET p == update_activity(player, timestamp) IN
    IF action = "MONEY_ADD" THEN [p EXCEPT !.money = @ + amount]
    ELSE IF action = "MONEY_REMOVE" THEN [p EXCEPT !.money = @ - amount]
    ELSE p

\* A multiplier that forgets the sign of a removal.
Multiplier_Unsigned(action) == 1

\* multiplier = 1 if action == "ITEM_ADD" else -1
Multiplier(action) == IF action = "ITEM_ADD" THEN 1 ELSE -1

\* The for loop of Player.apply_inventory over the remaining items.
RECURSIVE ApplyItems(_, _, _, _)
ApplyItems(inventory, changes, items, multiplier) ==
    IF items = <<>> THEN [inventory |-> inventory, changes |-> changes]
    ELSE LET item_type_id == Head(items)[1]
             amount == Head(items)[2]
             delta == multiplier * amount
             previous == DictGet(inventory, item_type_id, 0)
             updated == previous + delta
         IN ApplyItems(DictSet(inventory, item_type_id, updated),
                       DictSet(changes, item_type_id, <<delta, previous, updated>>),
                       Tail(items), multiplier)

\* Player.apply_inventory: the player afterwards and the returned changes
apply_inventory(player, action, items, timestamp) ==
    LET p == update_activity(player, timestamp)
        r == ApplyItems(p.inventory, EmptyDict, items, Multiplier(action))
    IN [player |-> [p EXCEPT !.inventory = r.inventory], changes |-> r.changes]

\* Player.get_item_count
get_item_count(player, item_type_id) == DictGet(player.inventory, item_type_id, 0)

\* ----------------------------------------------------------- PlayerRegistry
\* PlayerRegistry.from_db_file for a db.json that lists the players `seeded`
from_db_file(seeded) == [p \in seeded |-> Player(p, "seeded")]

\* A lookup that installs a fresh stub on every call.
registry_get_AlwaysNew(reg, player_id) ==
    DictSet(reg, player_id, Player(player_id, "unknown"))

\* PlayerRegistry.get: the registry after the call (a stub is created for an
\* unknown id); the returned player is registry_get(reg, id)[id].
registry_get(reg, player_id) ==
    IF player_id \notin DOMAIN reg
    THEN DictSet(reg, player_id, Player(player_id, "unknown"))
    ELSE reg

\* ----------------------------------------------------------- ItemStatistics
\* ItemStatistics.__init__
NewItemStatistics ==
    [totals |-> EmptyDict, owner_counts |-> EmptyDict, mentions |-> EmptyDict,
     first_seen_ts |-> EmptyDict, first_seen_order |-> <<>>]

\* An appearance that is recorded again each time the item is seen.
register_appearance_EveryTime(st, item_type_id, timestamp) ==
    [st EXCEPT
        !.first_seen_ts = DictSet(@, item_type_id, timestamp),
        !.first_seen_order = Append(@, <<timestamp, item_type_id>>)]

\* ItemStatistics.register_appearance
register_appearance(st, item_type_id, timestamp) ==
    IF item_type_id \in DOMAIN st.first_seen_ts THEN st
    ELSE [st EXCEPT
            !.first_seen_ts = DictSet(@, item_type_id, timestamp),
            !.first_seen_order = Append(@, <<timestamp, item_type_id>>)]

\* ItemStatistics.record_delta
record_delta(st, item_type_id, delta) ==
    [st EXCEPT !.totals = DictSet(@, item_type_id, DictGet(@, item_type_id, 0) + delta)]

\* A mention that is set instead of counted.
record_mention_Set(st, item_type_id) ==
    [st EXCEPT !.mentions = DictSet(@, item_type_id, 1)]

\* ItemStatistics.record_mention
record_mention(st, item_type_id) ==
    [st EXCEPT !.mentions = DictSet(@, item_type_id, DictGet(@, item_type_id, 0) + 1)]

\* An owner count that rises whenever the updated count is positive.
update_owner_count_IgnorePrevious(st, item_type_id, previous, updated) ==
    IF updated > 0
    THEN [st EXCEPT !.owner_counts =
              DictSet(@, item_type_id, DictGet(@, item_type_id, 0) + 1)]
    ELSE IF previous > 0 /\ updated <= 0
    THEN LET decremented == DictGet(st.owner_counts, item_type_id, 0) - 1 IN
         [st EXCEPT !.owner_counts =
              DictSet(@, item_type_id, IF decremented < 0 THEN 0 ELSE decremented)]
    ELSE st

\* An owner count that is decremented without the floor at zero.
update_owner_count_NoFloor(st, item_type_id, previous, updated) ==
    IF previous <= 0 /\ updated > 0
    THEN [st EXCEPT !.owner_counts =
              DictSet(@, item_type_id, DictGet(@, item_type_id, 0) + 1)]
    ELSE IF previous > 0 /\ updated <= 0
    THEN [st EXCEPT !.owner_counts =
              DictSet(@, item_type_id, DictGet(@, item_type_id, 0) - 1)]
    ELSE st

\* ItemStatistics.update_owner_count
update_owner_count(st, item_type_id, previous, updated) ==
    IF previous <= 0 /\ updated > 0
    THEN [st EXCEPT !.owner_counts =
              DictSet(@, item_type_id, DictGet(@, item_type_id, 0) + 1)]
    ELSE IF previous > 0 /\ updated <= 0
    THEN LET decremented == DictGet(st.owner_counts, item_type_id, 0) - 1 IN
         [st EXCEPT !.owner_counts =
              DictSet(@, item_type_id, IF decremented < 0 THEN 0 ELSE decremented)]
    ELSE st

\* ItemStatistics.first_items, for limit >= 1
first_items(st, limit) ==
    SubSeq(st.first_seen_order, 1,
           IF limit < Len(st.first_seen_order) THEN limit
           ELSE Len(st.first_seen_order))

\* The last items taken from the front of the list.
last_items_FromFront(st, limit) == first_items(st, limit)

\* ItemStatistics.last_items, for limit >= 1
last_items(st, limit) ==
    IF st.first_seen_order = <<>> THEN <<>>
    ELSE SubSeq(st.first_seen_order,
                IF limit < Len(st.first_seen_order)
                THEN Len(st.first_seen_order) - limit + 1 ELSE 1,
                Len(st.first_seen_order))

\* ---------------------------------------------------------------- GameState
\* The for loop of GameState.apply_inventory_event over changes.items(),
\* iterated in the given key order.
RECURSIVE ForwardChanges(_, _, _, _)
ForwardChanges(st, changes, order, timestamp) ==
    IF order = <<>> THEN st
    ELSE LET item_type_id == Head(order)
             delta == changes[item_type_id][1]
             previous == changes[item_type_id][2]
             updated == changes[item_type_id][3]
             s1 == register_appearance(st, item_type_id, timestamp)
             s2 == record_mention(s1, item_type_id)
             s3 == record_delta(s2, item_type_id, delta)
             s4 == update_owner_count(s3, item_type_id, previous, updated)
         IN ForwardChanges(s4, changes, Tail(order), timestamp)

\* The changes Player.apply_inventory returns for an event.
ChangesOf(reg, event) ==
    LET r == registry_get(reg, event.player_id) IN
    apply_inventory(r[event.player_id], event.action, event.items,
                    event.timestamp).changes

\* GameState.apply_inventory_event: registry and statistics afterwards
apply_inventory_event(reg, st, event, order) ==
    LET r == registry_get(reg, event.player_id)
        a == apply_inventory(r[event.player_id], event.action, event.items,
                             event.timestamp)
    IN [players |-> [r EXCEPT ![event.player_id] = a.player],
        item_stats |-> ForwardChanges(st, a.changes, order, event.timestamp)]

\* A money event that marks every player of the registry as active.
apply_money_event_AllActive(reg, event) ==
    LET r == registry_get(reg, event.player_id) IN
    [q \in DOMAIN r |->
        IF q = event.player_id
        THEN apply_money(r[q], event.action, event.amount, event.timestamp)
        ELSE update_activity(r[q], event.timestamp)]

\* GameState.apply_money_event: registry afterwards
apply_money_event(reg, event) ==
    LET r == registry_get(reg, event.player_id) IN
    [r EXCEPT ![event.player_id] =
        apply_money(@, event.action, event.amount, event.timestamp)]

\* The events the parsers can hand to a GameState.
InventoryEvents ==
    [timestamp : AggTimestamps, player_id : PlayerIds,
     action : {"ITEM_ADD", "ITEM_REMOVE"},
     items : SeqsUpTo(Items \X Amounts, MaxPairs)]

MoneyEvents ==
    [timestamp : AggTimestamps, player_id : PlayerIds,
     action : {"MONEY_ADD", "MONEY_REMOVE"}, amount : MoneyAmounts]

\* No ITEM_ADD / ITEM_REMOVE pair is being followed.
NoRoundTrip ==
    [phase |-> "idle", player_id |-> 0, item_type_id |-> 0, amount |-> 0,
     count_before |-> 0, total_before |-> 0]

\* No stream reader and no update_owner_count call on their own.
NoCall == [item |-> 0, previous |-> 0, updated |-> 0, before |-> EmptyDict]

UnitIdle ==
    /\ reader_kind = "none"
    /\ reader_file = <<>>
    /\ reader_iter = NewIter
    /\ yielded = <<>>
    /\ owner_call = NoCall

\* No interactive loop and no pipeline run.
RunIdle ==
    /\ instream = <<>>
    /\ outstream = <<>>
    /\ pipe_inventory = <<>>
    /\ pipe_money = <<>>
    /\ dict_order = <<>>
    /\ merged = [players |-> EmptyDict, item_stats |-> NewItemStatistics, applied |-> 0]

\* GameState(registry): fresh statistics, nothing applied yet
NewGameState ==
    /\ item_stats = NewItemStatistics
    /\ applied = 0
    /\ net_applied = [t \in Items |-> 0]
    /\ money_added = [p \in PlayerIds |-> 0]
    /\ money_removed = [p \in PlayerIds |-> 0]
    /\ floored = FALSE
    /\ round_trip = NoRoundTrip
    /\ applied_log = <<>>
    /\ mention_events = [t \in Items |-> 0]

\* The signed sum of the amounts an event applies to item t.
RECURSIVE NetOf(_, _, _)
NetOf(items, t, sign) ==
    IF items = <<>> THEN 0
    ELSE (IF Head(items)[1] = t THEN sign * Head(items)[2] ELSE 0)
         + NetOf(Tail(items), t, sign)

\* The ITEM_ADD / ITEM_REMOVE pair being followed after an inventory event:
\* an ITEM_ADD of one (item, amount) pair starts one, remembering the
\* player's count and the item's total before it; the ITEM_REMOVE of the
\* same pair for the same player, applied next, completes it.
RoundTripAfter(event) ==
    IF Len(event.items) # 1 THEN NoRoundTrip
    ELSE LET p == event.player_id
             t == event.items[1][1]
             a == event.items[1][2]
         IN IF event.action = "ITEM_ADD"
            THEN [phase |-> "added", player_id |-> p, item_type_id |-> t,
                  amount |-> a,
                  count_before |-> IF p \in DOMAIN players
                                   THEN get_item_count(players[p], t) ELSE 0,
                  total_before |-> DictGet(item_stats.totals, t, 0)]
            ELSE IF /\ round_trip.phase = "added"
                    /\ round_trip.player_id = p
                    /\ round_trip.item_type_id = t
                    /\ round_trip.amount = a
            THEN [round_trip EXCEPT !.phase = "removed"]
            ELSE NoRoundTrip

\* One call state.apply_inventory_event(event), its changes forwarded in the
\* given key order, with the bookkeeping of what has been applied.
InventoryStep(event, order) ==
    LET changes == ChangesOf(players, event)
        r == apply_inventory_event(players, item_stats, event, order)
    IN /\ players' = r.players
       /\ item_stats' = r.item_stats
       /\ floored' = (floored \/ \E t \in DOMAIN changes :
                         /\ changes[t][2] > 0
                         /\ changes[t][3] <= 0
                         /\ DictGet(item_stats.owner_counts, t, 0) = 0)
       /\ net_applied' = [t \in Items |-> net_applied[t] +
             NetOf(event.items, t, IF event.action = "ITEM_ADD" THEN 1 ELSE -1)]
       /\ round_trip' = RoundTripAfter(event)
       /\ mention_events' = [t \in Items |-> mention_events[t] +
             IF \E k \in DOMAIN event.items : event.items[k][1] = t THEN 1 ELSE 0]
       /\ applied' = applied + 1
       /\ UNCHANGED <<money_added, money_removed>>
       /\ UNCHANGED <<mergeVars, unitVars, runVars>>

\* One call state.apply_money_event(event), with the bookkeeping of what has
\* been applied.
MoneyStep(event) ==
    /\ players' = apply_money_event(players, event)
    /\ money_added' = [money_added EXCEPT ![event.player_id] =
           IF event.action = "MONEY_ADD" THEN @ + event.amount ELSE @]
    /\ money_removed' = [money_removed EXCEPT ![event.player_id] =
           IF event.action = "MONEY_REMOVE" THEN @ + event.amount ELSE @]
    /\ applied' = applied + 1
    /\ round_trip' = NoRoundTrip
    /\ UNCHANGED <<item_stats, net_applied, floored, mention_events>>
    /\ UNCHANGED <<mergeVars, unitVars, runVars>>

\* state.apply_inventory_event(event) for any event
ApplyInventoryEvent ==
    /\ applied < MaxEvents
    /\ \E event \in InventoryEvents :
         \E order \in KeyOrders(ChangesOf(players, event)) :
            InventoryStep(event, order)
    /\ UNCHANGED applied_log

\* state.apply_money_event(event) for any event
ApplyMoneyEvent ==
    /\ applied < MaxEvents
    /\ \E event \in MoneyEvents : MoneyStep(event)
    /\ UNCHANGED applied_log

\* main.run_pipeline: registry = from_db_file(...); state = GameState(registry)
\* for a db.json that lists the players 1..MaxSeeded
AggInit ==
    /\ players = from_db_file(1..MaxSeeded)
    /\ NewGameState
    /\ inventory_file = <<>>
    /\ money_file = <<>>
    /\ inventory_iter = NewIter
    /\ money_iter = NewIter
    /\ heap = {}
    /\ inventory_order = 0
    /\ money_order = 0
    /\ inventory_count = 0
    /\ money_count = 0
    /\ handle = <<>>
    /\ source = "none"
    /\ pc = "aggregate"
    /\ UnitIdle
    /\ RunIdle

AggNext ==
    \/ ApplyInventoryEvent
    \/ ApplyMoneyEvent

\* Events applied to a GameState, in any number up to MaxEvents and any order.
AggSpec == AggInit /\ [][AggNext]_vars

\* Events with any of the timestamps 1..MaxTs and unit amounts.
TimedInventoryEvents ==
    [timestamp : Timestamps, player_id : PlayerIds,
     action : {"ITEM_ADD", "ITEM_REMOVE"},
     items : SeqsUpTo(Items \X {1}, MaxPairs)]

TimedMoneyEvents ==
    [timestamp : Timestamps, player_id : PlayerIds,
     action : {"MONEY_ADD", "MONEY_REMOVE"}, amount : {1}]

\* state.apply_inventory_event(event), the event kept in applied_log
ApplyTimedInventoryEvent ==
    /\ applied < MaxEvents
    /\ \E event \in TimedInventoryEvents :
         /\ \E order \in KeyOrders(ChangesOf(players, event)) :
               InventoryStep(event, order)
         /\ applied_log' = Append(applied_log, [kind |-> "inventory", event |-> event])

\* state.apply_money_event(event), the event kept in applied_log
ApplyTimedMoneyEvent ==
    /\ applied < MaxEvents
    /\ \E event \in TimedMoneyEvents :
         /\ MoneyStep(event)
         /\ applied_log' = Append(applied_log, [kind |-> "money", event |-> event])

TimedNext ==
    \/ ApplyTimedInventoryEvent
    \/ ApplyTimedMoneyEvent

\* Events of any timestamps applied to a GameState in any order, the applied
\* events remembered.
TimedSpec == AggInit /\ [][TimedNext]_vars

\* ------------------------------------------------------ merge_logs_to_file
MergeInit ==
    /\ inventory_file \in SeqsUpTo(Lines, MaxLines)
    /\ money_file \in SeqsUpTo(Lines, MaxLines)
    /\ inventory_iter = NewIter
    /\ money_iter = NewIter
    /\ heap = {}
    /\ inventory_order = 0
    /\ money_order = 0
    /\ inventory_count = 0
    /\ money_count = 0
    /\ handle = <<>>
    /\ source = "none"
    /\ pc = "seed_inventory"
    /\ players = EmptyDict
    /\ NewGameState
    /\ UnitIdle
    /\ RunIdle

\* first_inv = next(inventory_iter) and the push of it
SeedInventory ==
    /\ pc = "seed_inventory"
    /\ LET r == next_event(inventory_file, inventory_iter) IN
       /\ inventory_iter' = r.iter
       /\ IF r.event # None
          THEN /\ heap' = heappush(heap, HeapItem(r.event.timestamp,
                             INVENTORY_PRIORITY, inventory_order, "inventory", r.event))
               /\ inventory_order' = inventory_order + 1
          ELSE UNCHANGED <<heap, inventory_order>>
    /\ pc' = "seed_money"
    /\ UNCHANGED <<aggVars, unitVars, runVars>>
    /\ UNCHANGED <<inventory_file, money_file, money_iter, money_order,
                   inventory_count, money_count, handle, source>>

\* The seeding of the money source, pulling from inventory_iter by mistake.
SeedMoney_FromInventory ==
    /\ pc = "seed_money"
    /\ LET r == next_event(inventory_file, inventory_iter) IN
       /\ inventory_iter' = r.iter
       /\ IF r.event # None
          THEN /\ heap' = heappush(heap, HeapItem(r.event.timestamp,
                             INVENTORY_PRIORITY, inventory_order, "inventory", r.event))
               /\ inventory_order' = inventory_order + 1
          ELSE UNCHANGED <<heap, inventory_order>>
    /\ pc' = "loop"
    /\ UNCHANGED <<aggVars, unitVars, runVars>>
    /\ UNCHANGED <<inventory_file, money_file, money_iter, money_order,
                   inventory_count, money_count, handle, source>>

\* first_money = next(money_iter) and the push of it
SeedMoney ==
    /\ pc = "seed_money"
    /\ LET r == next_event(money_file, money_iter) IN
       /\ money_iter' = r.iter
       /\ IF r.event # None
          THEN /\ heap' = heappush(heap, HeapItem(r.event.timestamp,
                             MONEY_PRIORITY, money_order, "money", r.event))
               /\ money_order' = money_order + 1
          ELSE UNCHANGED <<heap, money_order>>
    /\ pc' = "loop"
    /\ UNCHANGED <<aggVars, unitVars, runVars>>
    /\ UNCHANGED <<inventory_file, money_file, inventory_iter, inventory_order,
                   inventory_count, money_count, handle, source>>

\* while heap: pop the smallest tuple, count it and write its line
PopAndWrite ==
    /\ pc = "loop"
    /\ heap # {}
    /\ LET top == HeapTop(heap) IN
       /\ heap' = heappop(heap)
       /\ source' = top.source
       /\ handle' = Append(handle, [source |-> top.source, event |-> top.event])
       /\ IF top.source = "inventory"
          THEN inventory_count' = inventory_count + 1 /\ UNCHANGED money_count
          ELSE money_count' = money_count + 1 /\ UNCHANGED inventory_count
    /\ pc' = "refill"
    /\ UNCHANGED <<aggVars, unitVars, runVars>>
    /\ UNCHANGED <<inventory_file, money_file, inventory_iter, money_iter,
                   inventory_order, money_order>>

\* The inventory branch without the except clause: the StopIteration of the
\* exhausted reader leaves the function from inside the loop.
RefillInventory_NoExcept ==
    /\ pc = "refill"
    /\ source = "inventory"
    /\ LET r == next_event(inventory_file, inventory_iter) IN
       /\ r.event # None
       /\ inventory_iter' = r.iter
       /\ heap' = heappush(heap, HeapItem(r.event.timestamp,
                     INVENTORY_PRIORITY, inventory_order, "inventory", r.event))
       /\ inventory_order' = inventory_order + 1
    /\ pc' = "loop"
    /\ UNCHANGED <<aggVars, unitVars, runVars>>
    /\ UNCHANGED <<inventory_file, money_file, money_iter, money_order,
                   inventory_count, money_count, handle, source>>

\* if source == "inventory": next_event = next(inventory_iter) and its push
RefillInventory ==
    /\ pc = "refill"
    /\ source = "inventory"
    /\ LET r == next_event(inventory_file, inventory_iter) IN
       /\ inventory_iter' = r.iter
       /\ IF r.event # None
          THEN /\ heap' = heappush(heap, HeapItem(r.event.timestamp,
                             INVENTORY_PRIORITY, inventory_order, "inventory", r.event))
               /\ inventory_order' = inventory_order + 1
          ELSE UNCHANGED <<heap, inventory_order>>
    /\ pc' = "loop"
    /\ UNCHANGED <<aggVars, unitVars, runVars>>
    /\ UNCHANGED <<inventory_file, money_file, money_iter, money_order,
                   inventory_count, money_count, handle, source>>

\* The else branch, pulling from inventory_iter by mistake.
RefillMoney_FromInventory ==
    /\ pc = "refill"
    /\ source # "inventory"
    /\ LET r == next_event(inventory_file, inventory_iter) IN
       /\ inventory_iter' = r.iter
       /\ IF r.event # None
          THEN /\ heap' = heappush(heap, HeapItem(r.event.timestamp,
                             INVENTORY_PRIORITY, inventory_order, "inventory", r.event))
               /\ inventory_order' = inventory_order + 1
          ELSE UNCHANGED <<heap, inventory_order>>
    /\ pc' = "loop"
    /\ UNCHANGED <<aggVars, unitVars, runVars>>
    /\ UNCHANGED <<inventory_file, money_file, money_iter, money_order,
                   inventory_count, money_count, handle, source>>

\* else: next_event = next(money_iter) and its push
RefillMoney ==
    /\ pc = "refill"
    /\ source # "inventory"
    /\ LET r == next_event(money_file, money_iter) IN
       /\ money_iter' = r.iter
       /\ IF r.event # None
          THEN /\ heap' = heappush(heap, HeapItem(r.event.timestamp,
                             MONEY_PRIORITY, money_order, "money", r.event))
               /\ money_order' = money_order + 1
          ELSE UNCHANGED <<heap, money_order>>
    /\ pc' = "loop"
    /\ UNCHANGED <<aggVars, unitVars, runVars>>
    /\ UNCHANGED <<inventory_file, money_file, inventory_iter, inventory_order,
                   inventory_count, money_count, handle, source>>

\* the while loop ends on an empty heap; the file is closed
MergeFinish ==
    /\ pc = "loop"
    /\ heap = {}
    /\ pc' = "done"
    /\ UNCHANGED <<aggVars, unitVars, runVars>>
    /\ UNCHANGED <<inventory_file, money_file, inventory_iter, money_iter, heap,
                   inventory_order, money_order, inventory_count, money_count,
                   handle, source>>

Init == MergeInit

Next ==
    \/ SeedInventory
    \/ SeedMoney
    \/ PopAndWrite
    \/ RefillInventory
    \/ RefillMoney
    \/ MergeFinish

Spec == Init /\ [][Next]_vars

\* The merge as the single thread of control runs it: a statement that can
\* execute does execute.
FairSpec == Spec /\ WF_vars(Next)

\* --------------------------------------------- a stream reader on its own
\* No merge in progress.
MergeIdle ==
    /\ inventory_file = <<>>
    /\ money_file = <<>>
    /\ inventory_iter = NewIter
    /\ money_iter = NewIter
    /\ heap = {}
    /\ inventory_order = 0
    /\ money_order = 0
    /\ inventory_count = 0
    /\ money_count = 0
    /\ handle = <<>>
    /\ source = "none"

\* iter_inventory_events(path) or iter_money_events(path) on a log of up to
\* MaxLines simple lines, or of one line of any form.
ReaderInit ==
    /\ \/ /\ reader_kind = "inventory"
          /\ reader_file \in SeqsUpTo(SimpleInventoryLines, MaxLines)
                               \cup {<<line>> : line \in InventoryLines}
       \/ /\ reader_kind = "money"
          /\ reader_file \in SeqsUpTo(SimpleMoneyLines, MaxLines)
                               \cup {<<line>> : line \in MoneyLines}
    /\ reader_iter = NewIter
    /\ yielded = <<>>
    /\ owner_call = NoCall
    /\ RunIdle
    /\ MergeIdle
    /\ pc = "read"
    /\ players = EmptyDict
    /\ NewGameState

\* next(iterator) by the consumer of the generator
NextElement ==
    /\ pc = "read"
    /\ ~reader_iter.finished
    /\ LET r == stream_next(reader_kind, reader_file, reader_iter) IN
       /\ reader_iter' = r.iter
       /\ yielded' = IF r.event # None THEN Append(yielded, r.event) ELSE yielded
    /\ UNCHANGED <<reader_kind, reader_file, owner_call>>
    /\ UNCHANGED <<mergeVars, aggVars, runVars>>

ReaderNext == NextElement

ReaderSpec == ReaderInit /\ [][ReaderNext]_vars

\* --------------------------------------- update_owner_count on its own
\* The counts passed as previous and updated.
Counts == (-1)..MaxAmount

OwnerInit ==
    /\ UnitIdle
    /\ RunIdle
    /\ MergeIdle
    /\ pc = "owner"
    /\ players = EmptyDict
    /\ NewGameState

\* item_stats.update_owner_count(item_type_id, previous, updated)
CallUpdateOwnerCount ==
    /\ pc = "owner"
    /\ \E item_type_id \in Items, previous \in Counts, updated \in Counts :
          /\ (previous <= 0 /\ updated > 0) =>
                DictGet(item_stats.owner_counts, item_type_id, 0) < MaxOwners
          /\ item_stats' = update_owner_count(item_stats, item_type_id, previous, updated)
          /\ owner_call' = [item |-> item_type_id, previous |-> previous,
                            updated |-> updated, before |-> item_stats.owner_counts]
    /\ UNCHANGED <<reader_kind, reader_file, reader_iter, yielded>>
    /\ UNCHANGED <<players, applied, net_applied, money_added, money_removed,
                   floored, round_trip, applied_log, mention_events>>
    /\ UNCHANGED <<mergeVars, runVars>>

OwnerNext == CallUpdateOwnerCount

OwnerSpec == OwnerInit /\ [][OwnerNext]_vars

\* ------------------------------------------------- the interactive loop
\* The number of players interactive_loop lists for an item.
TOP_PLAYERS == 10

\* The lines typed at the prompt.
QueryLines == {"1", " 2", "x", " "}

\* The items catalog loaded from items.xml.
Catalog == (1 :> "sword")

\* _item_name
_item_name(item_type_id, catalog) ==
    IF item_type_id \in DOMAIN catalog THEN catalog[item_type_id]
    ELSE "unknown item"

\* player_counts: the players holding more than zero of the item
player_counts(reg, item_type_id) ==
    {[player_id |-> q, name |-> reg[q].name,
      count |-> get_item_count(reg[q], item_type_id)] :
        q \in {q \in DOMAIN reg : get_item_count(reg[q], item_type_id) > 0}}

\* A sort key that orders by ascending count alone.
KeyBefore_AscendingCount(a, b) ==
    \/ a.count < b.count
    \/ a.count = b.count /\ a.player_id < b.player_id

\* key=lambda pair: (-pair[1], pair[0].player_id)
KeyBefore(a, b) ==
    \/ a.count > b.count
    \/ a.count = b.count /\ a.player_id < b.player_id

\* sorted(player_counts, key=...)
RECURSIVE sorted(_)
sorted(pairs) ==
    IF pairs = {} THEN <<>>
    ELSE LET least == CHOOSE a \in pairs : \A b \in pairs \ {a} : KeyBefore(a, b)
         IN <<least>> \o sorted(pairs \ {least})

\* The lines one pass of the loop body writes for an input line.
Response(reg, st, raw_line) ==
    LET line == strip(raw_line) IN
    IF line = "" THEN <<>>
    ELSE IF ~IsInt(line) THEN <<[kind |-> "error", text |-> line]>>
    ELSE LET item_type_id == int(line)
             ordered == sorted(player_counts(reg, item_type_id))
             top == SubSeq(ordered, 1,
                           IF Len(ordered) < TOP_PLAYERS THEN Len(ordered)
                           ELSE TOP_PLAYERS)
         IN << [kind |-> "name", text |-> _item_name(item_type_id, Catalog)],
               [kind |-> "total", count |-> DictGet(st.totals, item_type_id, 0)],
               [kind |-> "owners", count |-> DictGet(st.owner_counts, item_type_id, 0)],
               [kind |-> "header"] >>
            \o [k \in DOMAIN top |->
                  [kind |-> "player", name |-> top[k].name,
                   count |-> top[k].count, player_id |-> top[k].player_id]]

\* The counts of item 1 the next player of the inventory log ends up with.
HoldingChoices ==
    IF applied < MaxMixed THEN {-1, 0, 1, 2} ELSE {1, 2}

\* The inventory event that leaves a fresh player with the given count of
\* item 1 (with item 2 instead for the count 0).
HoldingEvent(player_id, count) ==
    [timestamp |-> 1, player_id |-> player_id,
     action |-> IF count < 0 THEN "ITEM_REMOVE" ELSE "ITEM_ADD",
     items |-> IF count = 0 THEN <<<<2, 1>>>>
               ELSE IF count < 0 THEN <<<<1, -count>>>>
               ELSE <<<<1, count>>>>]

\* run_pipeline's inventory pass: the event of the next player
ApplyHoldingEvent ==
    /\ pc = "aggregate"
    /\ applied < MaxHolders
    /\ \E count \in HoldingChoices :
          LET event == HoldingEvent(applied + 1, count) IN
          \E order \in KeyOrders(ChangesOf(players, event)) :
              InventoryStep(event, order)
    /\ UNCHANGED applied_log

\* run_pipeline: interactive_loop(state, catalog)
StartInteractive ==
    /\ pc = "aggregate"
    /\ pc' = "interactive"
    /\ UNCHANGED <<inventory_file, money_file, inventory_iter, money_iter, heap,
                   inventory_order, money_order, inventory_count, money_count,
                   handle, source>>
    /\ UNCHANGED <<aggVars, unitVars, runVars>>

\* for raw_line in instream: one pass of the loop body
AnswerLine ==
    /\ pc = "interactive"
    /\ Len(instream) < MaxQueries
    /\ \E raw_line \in QueryLines :
          /\ instream' = Append(instream, raw_line)
          /\ outstream' = Append(outstream, Response(players, item_stats, raw_line))
    /\ UNCHANGED <<pipe_inventory, pipe_money, dict_order, merged>>
    /\ UNCHANGED <<mergeVars, aggVars, unitVars>>

InteractiveNext ==
    \/ ApplyHoldingEvent
    \/ StartInteractive
    \/ AnswerLine

InteractiveSpec == AggInit /\ [][InteractiveNext]_vars

\* ------------------------------------------------------------ run_pipeline
\* The events the two logs of a run hold.
PipeInventoryEvents ==
    [timestamp : Timestamps, player_id : PlayerIds,
     action : {"ITEM_ADD", "ITEM_REMOVE"},
     items : {<<<<1, 1>>>>, <<<<1, 1>>, <<2, 1>>>>, <<<<2, 1>>, <<1, 1>>>>}]

PipeMoneyEvents == TimedMoneyEvents

\* The item ids of a list of pairs in order of first occurrence.
RECURSIVE InsertionOrder(_, _)
InsertionOrder(items, seen) ==
    IF items = <<>> THEN <<>>
    ELSE IF Head(items)[1] \in seen THEN InsertionOrder(Tail(items), seen)
    ELSE <<Head(items)[1]>> \o InsertionOrder(Tail(items), seen \cup {Head(items)[1]})

RECURSIVE Ascending(_)
Ascending(keys) ==
    IF keys = {} THEN <<>>
    ELSE LET least == CHOOSE k \in keys : \A other \in keys : k <= other
         IN <<least>> \o Ascending(keys \ {least})

\* changes.items(): the order in which the dict built for an event gives its
\* keys, by insertion or by hash of the small integers; the same whenever
\* the same event is applied.
ChangesOrder(policy, event) ==
    IF policy = "insertion" THEN InsertionOrder(event.items, {})
    ELSE Ascending({event.items[k][1] : k \in DOMAIN event.items})

\* A merge that holds every event of both logs in the heap at once: the
\* events in the order of (timestamp, priority, order).
RECURSIVE SortedMerge(_)
SortedMerge(h) ==
    IF h = {} THEN <<>>
    ELSE <<[kind |-> HeapTop(h).source, event |-> HeapTop(h).event]>>
             \o SortedMerge(heappop(h))

merged_order_AllPending(inv, mon) ==
    SortedMerge({HeapItem(inv[k].timestamp, INVENTORY_PRIORITY, k - 1,
                          "inventory", inv[k]) : k \in DOMAIN inv}
                \cup {HeapItem(mon[k].timestamp, MONEY_PRIORITY, k - 1,
                               "money", mon[k]) : k \in DOMAIN mon})

\* The while loop of merge_logs_to_file on the events of the two logs: h is
\* the heap, i and m the positions of the next event of each log.
RECURSIVE MergeLoop(_, _, _, _, _)
MergeLoop(inv, mon, h, i, m) ==
    IF h = {} THEN <<>>
    ELSE LET top == HeapTop(h)
             rest == heappop(h)
         IN <<[kind |-> top.source, event |-> top.event]>> \o
            (IF top.source = "inventory"
             THEN MergeLoop(inv, mon,
                      IF i <= Len(inv)
                      THEN heappush(rest, HeapItem(inv[i].timestamp,
                               INVENTORY_PRIORITY, i - 1, "inventory", inv[i]))
                      ELSE rest,
                      i + 1, m)
             ELSE MergeLoop(inv, mon,
                      IF m <= Len(mon)
                      THEN heappush(rest, HeapItem(mon[m].timestamp,
                               MONEY_PRIORITY, m - 1, "money", mon[m]))
                      ELSE rest,
                      i, m + 1))

\* merge_logs_to_file: the events of the two logs in the order written
merged_order(inv, mon) ==
    LET h1 == IF inv # <<>>
              THEN heappush({}, HeapItem(inv[1].timestamp, INVENTORY_PRIORITY,
                                         0, "inventory", inv[1]))
              ELSE {}
        h2 == IF mon # <<>>
              THEN heappush(h1, HeapItem(mon[1].timestamp, MONEY_PRIORITY,
                                         0, "money", mon[1]))
              ELSE h1
    IN MergeLoop(inv, mon, h2, 2, 2)

PipelineInit ==
    /\ pipe_inventory \in SeqsUpTo(PipeInventoryEvents, MaxPipeEvents)
    /\ pipe_money \in SeqsUpTo(PipeMoneyEvents, MaxPipeEvents)
    /\ dict_order \in {"insertion", "ascending"}
    /\ players = from_db_file(1..MaxSeeded)
    /\ NewGameState
    /\ merged = [players |-> from_db_file(1..MaxSeeded),
                 item_stats |-> NewItemStatistics, applied |-> 0]
    /\ instream = <<>>
    /\ outstream = <<>>
    /\ UnitIdle
    /\ MergeIdle
    /\ pc = "pipeline"

\* for event in iter_inventory_events(...): state.apply_inventory_event(event)
PassInventory ==
    /\ pc = "pipeline"
    /\ applied < Len(pipe_inventory)
    /\ LET event == pipe_inventory[applied + 1] IN
       /\ InventoryStep(event, ChangesOrder(dict_order, event))
       /\ applied_log' = Append(applied_log, [kind |-> "inventory", event |-> event])

\* for event in iter_money_events(...): state.apply_money_event(event)
PassMoney ==
    /\ pc = "pipeline"
    /\ applied >= Len(pipe_inventory)
    /\ applied < Len(pipe_inventory) + Len(pipe_money)
    /\ LET event == pipe_money[applied - Len(pipe_inventory) + 1] IN
       /\ MoneyStep(event)
       /\ applied_log' = Append(applied_log, [kind |-> "money", event |-> event])

\* The same events applied to a second GameState one by one in the order
\* merge_logs_to_file writes them.
ReplayMerged ==
    /\ pc = "pipeline"
    /\ applied = Len(pipe_inventory) + Len(pipe_money)
    /\ merged.applied < Len(pipe_inventory) + Len(pipe_money)
    /\ LET next == merged_order(pipe_inventory, pipe_money)[merged.applied + 1]
           r == apply_inventory_event(merged.players, merged.item_stats,
                    next.event, ChangesOrder(dict_order, next.event))
       IN merged' =
             IF next.kind = "inventory"
             THEN [players |-> r.players, item_stats |-> r.item_stats,
                   applied |-> merged.applied + 1]
             ELSE [players |-> apply_money_event(merged.players, next.event),
                   item_stats |-> merged.item_stats,
                   applied |-> merged.applied + 1]
    /\ UNCHANGED <<instream, outstream, pipe_inventory, pipe_money, dict_order>>
    /\ UNCHANGED <<mergeVars, aggVars, unitVars>>

PipelineNext ==
    \/ PassInventory
    \/ PassMoney
    \/ ReplayMerged

PipelineSpec == PipelineInit /\ [][PipelineNext]_vars

\* ------------------------------------------------- properties of the merge
NonDecreasing(events) ==
    \A i \in 1..(Len(events) - 1) : events[i].timestamp <= events[i + 1].timestamp

\* Each log individually non-decreasing in timestamp.
InputsSorted ==
    /\ NonDecreasing(iter_events(inventory_file))
    /\ NonDecreasing(iter_events(money_file))

RECURSIVE WrittenFrom(_, _)
\* The events of one source among the written lines, in written order.
WrittenFrom(lines, src) ==
    IF lines = <<>> THEN <<>>
    ELSE IF Head(lines).source = src
         THEN <<Head(lines).event>> \o WrittenFrom(Tail(lines), src)
         ELSE WrittenFrom(Tail(lines), src)

Occurrences(src, event) ==
    Cardinality({i \in 1..Len(handle) :
                    handle[i] = [source |-> src, event |-> event]})

HeapOf(src) == {x \in heap : x.source = src}

\* C1: when each input is non-decreasing in timestamp, the timestamps of the
\* events written by merge_logs_to_file are non-decreasing.
C1_MergedTimestampsNonDecreasing ==
    InputsSorted =>
        \A i \in 1..(Len(handle) - 1) :
            handle[i].event.timestamp <= handle[i + 1].event.timestamp

\* A finished merge of sorted inputs in which a money event is followed by a
\* later inventory event.
C1_Witness ==
    /\ pc = "done"
    /\ InputsSorted
    /\ Len(handle) >= 3
    /\ \E i \in 1..(Len(handle) - 1) :
          /\ handle[i].source = "money"
          /\ handle[i + 1].source = "inventory"
          /\ handle[i].event.timestamp < handle[i + 1].event.timestamp

\* C2: when each input is non-decreasing in timestamp, no money event is
\* written before an inventory event of the same timestamp: for every
\* timestamp t the inventory events of t all come before the money events of t.
C2_InventoryBeforeMoneyOnTie ==
    InputsSorted =>
        \A i, j \in 1..Len(handle) :
            (/\ i < j
             /\ handle[i].event.timestamp = handle[j].event.timestamp
             /\ handle[j].source = "inventory")
            => handle[i].source = "inventory"

\* A finished merge in which two inventory events and a money event share a
\* timestamp, the money event standing on an earlier line than the second
\* inventory event.
C2_Witness ==
    /\ pc = "done"
    /\ InputsSorted
    /\ \E i \in 1..(Len(handle) - 1) :
          /\ handle[i].source = "inventory"
          /\ handle[i + 1].source = "money"
          /\ handle[i].event.timestamp = handle[i + 1].event.timestamp
          /\ handle[i + 1].event.line_no < handle[i].event.line_no

\* C3: a finished merge of N inventory events and M money events has written
\* exactly N+M lines, every input event exactly once, and has counted N and M.
C3_EveryEventWrittenOnce ==
    pc = "done" =>
        LET inv == iter_events(inventory_file)
            mon == iter_events(money_file)
        IN /\ Len(handle) = Len(inv) + Len(mon)
           /\ inventory_count = Len(inv)
           /\ money_count = Len(mon)
           /\ \A k \in 1..Len(inv) : Occurrences("inventory", inv[k]) = 1
           /\ \A k \in 1..Len(mon) : Occurrences("money", mon[k]) = 1

\* A finished merge of two inventory events and one money event, with a
\* rejected line in the inventory log.
C3_Witness ==
    /\ pc = "done"
    /\ Len(iter_events(inventory_file)) = 2
    /\ Len(iter_events(money_file)) >= 1
    /\ Len(inventory_file) = 3
    /\ Len(handle) >= 3

\* The lines written so far hold, for each source, exactly the first events
\* of that source in their arrival order, and all of them once the merge is
\* done.
PerSourceOrderKept ==
    LET inv == iter_events(inventory_file)
        mon == iter_events(money_file)
    IN /\ inventory_count <= Len(inv)
       /\ money_count <= Len(mon)
       /\ WrittenFrom(handle, "inventory") = SubSeq(inv, 1, inventory_count)
       /\ WrittenFrom(handle, "money") = SubSeq(mon, 1, money_count)
       /\ pc = "done" => inventory_count = Len(inv) /\ money_count = Len(mon)

\* C4: for any two inputs, sorted or not, the written lines restricted to one
\* source are that source's events in arrival order, and the two order
\* counters never decrease.
C4_ArrivalOrderKeptPerSource ==
    /\ []PerSourceOrderKept
    /\ [][inventory_order' >= inventory_order /\ money_order' >= money_order]_vars

\* A finished merge whose inventory log is not sorted (a later line carries
\* an earlier timestamp) and whose money log holds an event too.
C4_Witness ==
    /\ pc = "done"
    /\ ~NonDecreasing(iter_events(inventory_file))
    /\ Len(iter_events(money_file)) >= 1
    /\ inventory_order >= 2

\* C5: the heap never holds more than one tuple per source, hence never more
\* than two, and holds none of a source whose reader has finished.
C5_OnePendingEventPerSource ==
    /\ Cardinality(HeapOf("inventory")) <= 1
    /\ Cardinality(HeapOf("money")) <= 1
    /\ Cardinality(heap) <= 2
    /\ inventory_iter.finished => HeapOf("inventory") = {}
    /\ money_iter.finished => HeapOf("money") = {}

\* The inventory reader has finished after yielding events, both sources
\* have written lines and a money event is still pending.
C5_Witness ==
    /\ inventory_iter.finished
    /\ inventory_count >= 1
    /\ money_count >= 1
    /\ Cardinality(HeapOf("money")) = 1

\* ------------------------------------------- properties of the aggregation
OwnerCount(t) == DictGet(item_stats.owner_counts, t, 0)

Total(t) == DictGet(item_stats.totals, t, 0)

CountOf(p, t) == IF p \in DOMAIN players THEN get_item_count(players[p], t) ELSE 0

\* The players of the registry holding more than 0 units of item t.
Holders(t) == {p \in DOMAIN players : get_item_count(players[p], t) > 0}

RECURSIVE SumOfCounts(_, _)
\* The sum of the inventory counts of item t over the players ps.
SumOfCounts(ps, t) ==
    IF ps = {} THEN 0
    ELSE LET p == CHOOSE q \in ps : TRUE
         IN CountOf(p, t) + SumOfCounts(ps \ {p}, t)

\* C6: after any sequence of apply_inventory_event calls no owner count is
\* negative.
C6_OwnerCountsNeverNegative ==
    \A x \in DOMAIN item_stats.owner_counts : item_stats.owner_counts[x] >= 0

\* The floor of update_owner_count has been taken, and a later ITEM_REMOVE
\* has driven a player's count below zero.
C6_Witness ==
    /\ floored
    /\ \E p \in DOMAIN players, x \in DOMAIN item_stats.owner_counts :
          /\ get_item_count(players[p], x) < 0
          /\ item_stats.owner_counts[x] = 0

\* C7: after any sequence of apply_inventory_event calls, the owner count of
\* every item is the number of players whose count of the item is above 0.
C7_OwnerCountIsNumberOfHolders ==
    \A t \in Items : OwnerCount(t) = Cardinality(Holders(t))

\* C8: after any sequence of apply_inventory_event calls, the total of every
\* item is the signed sum of the amounts of all applied pairs of that item,
\* which is the sum of all players' counts of the item.
C8_TotalIsNetApplied ==
    \A t \in Items :
        /\ Total(t) = net_applied[t]
        /\ Total(t) = SumOfCounts(DOMAIN players, t)

\* C9: an ITEM_ADD of one (item, amount) pair followed by the ITEM_REMOVE of
\* the same pair for the same player leaves the player's count of the item
\* and the item's total where they were before the two events.
C9_AddThenRemoveRestores ==
    round_trip.phase = "removed" =>
        /\ CountOf(round_trip.player_id, round_trip.item_type_id)
              = round_trip.count_before
        /\ Total(round_trip.item_type_id) = round_trip.total_before

\* An ITEM_ADD / ITEM_REMOVE pair completed on a player who held the item
\* before it.
C9_Witness ==
    /\ round_trip.phase = "removed"
    /\ round_trip.count_before > 0
    /\ applied = 3

\* C10: after any sequence of apply_money_event calls, every player's money
\* is the sum of the amounts of the player's MONEY_ADD events minus the sum
\* of the amounts of the player's MONEY_REMOVE events, negative or not.
C10_MoneyIsAddedMinusRemoved ==
    \A p \in PlayerIds :
        (IF p \in DOMAIN players THEN players[p].money ELSE 0)
            = money_added[p] - money_removed[p]

\* A player whose balance is negative after a MONEY_ADD and a larger
\* MONEY_REMOVE.
C10_Witness ==
    \E p \in DOMAIN players :
        /\ players[p].money < 0
        /\ money_added[p] > 0
        /\ money_removed[p] > money_added[p]

\* --------------------------------- properties of the applied-event history
\* The positions in applied_log of the events applied to player p.
EventsOfPlayer(p) ==
    {i \in DOMAIN applied_log : applied_log[i].event.player_id = p}

\* The positions in applied_log of the inventory events listing item t.
EventsListing(t) ==
    {i \in DOMAIN applied_log :
        /\ applied_log[i].kind = "inventory"
        /\ \E k \in DOMAIN applied_log[i].event.items :
              applied_log[i].event.items[k][1] = t}

SetMin(S) == CHOOSE x \in S : \A y \in S : x <= y

SetMax(S) == CHOOSE x \in S : \A y \in S : y <= x

\* Every player with applied events carries the timestamp of the first of
\* them as first_event_ts and of the latest as last_event_ts; a player
\* without events carries neither.
ActivityMatchesHistory ==
    \A p \in PlayerIds :
        IF EventsOfPlayer(p) = {}
        THEN p \in DOMAIN players =>
                /\ players[p].first_event_ts = NoneTs
                /\ players[p].last_event_ts = NoneTs
        ELSE /\ p \in DOMAIN players
             /\ players[p].first_event_ts =
                   applied_log[SetMin(EventsOfPlayer(p))].event.timestamp
             /\ players[p].last_event_ts =
                   applied_log[SetMax(EventsOfPlayer(p))].event.timestamp

\* C11: first_event_ts is the timestamp of the first event applied to the
\* player and, once written, never changes; last_event_ts is the timestamp of
\* the latest event applied to the player; a player without events has
\* neither.
C11_ActivityTimestamps ==
    /\ []ActivityMatchesHistory
    /\ [][\A p \in DOMAIN players :
             players[p].first_event_ts # NoneTs =>
                 players'[p].first_event_ts = players[p].first_event_ts]_vars

\* A player whose first event came with a later timestamp than the last one,
\* after a money and an inventory event.
C11_Witness ==
    \E p \in DOMAIN players :
        /\ players[p].first_event_ts > players[p].last_event_ts
        /\ players[p].last_event_ts # NoneTs
        /\ \E i, j \in EventsOfPlayer(p) :
              applied_log[i].kind = "money" /\ applied_log[j].kind = "inventory"

\* first_seen holds each listed item once, with the timestamp of the first
\* event listing it, items of earlier events before items of later ones.
FirstSeenMatchesHistory ==
    LET seen == item_stats.first_seen_order IN
    /\ \A t \in Items :
          Cardinality({k \in DOMAIN seen : seen[k][2] = t})
              = IF EventsListing(t) = {} THEN 0 ELSE 1
    /\ \A k \in DOMAIN seen :
          seen[k][1] = applied_log[SetMin(EventsListing(seen[k][2]))].event.timestamp
    /\ \A j, k \in DOMAIN seen :
          SetMin(EventsListing(seen[j][2])) < SetMin(EventsListing(seen[k][2]))
              => j < k

\* C12: first_seen holds each item listed so far exactly once, with the
\* timestamp of the first applied event listing it, in the order of those
\* first events, and it is only ever appended to.
C12_FirstSeenAppendOnly ==
    /\ []FirstSeenMatchesHistory
    /\ [][/\ Len(item_stats'.first_seen_order) >= Len(item_stats.first_seen_order)
          /\ SubSeq(item_stats'.first_seen_order, 1,
                    Len(item_stats.first_seen_order))
                = item_stats.first_seen_order]_vars

\* Two items first seen at decreasing timestamps, the first of them listed
\* again by a third event with another timestamp.
C12_Witness ==
    LET seen == item_stats.first_seen_order IN
    /\ Len(seen) = 2
    /\ seen[1][1] > seen[2][1]
    /\ Len(applied_log) = 3
    /\ 3 \in EventsListing(seen[1][2])
    /\ applied_log[3].event.timestamp # seen[1][1]

\* C13: the mention count of every item is the number of applied inventory
\* events that list the item, whatever the amounts and the action.
C13_MentionsCountEvents ==
    \A t \in Items : DictGet(item_stats.mentions, t, 0) = mention_events[t]

\* An item mentioned by three events, one of which listed it twice, with more
\* removed than added.
C13_Witness ==
    \E t \in Items :
        /\ DictGet(item_stats.mentions, t, 0) = 3
        /\ DictGet(item_stats.totals, t, 0) # net_applied[t]
        /\ net_applied[t] < 0

\* The registry holds the players of db.json and the players of the applied
\* events, each under its own id, the seeded ones with their db.json name,
\* the others as "unknown"; a seeded player without events is as created.
RegistryMatchesHistory ==
    /\ DOMAIN players = (1..MaxSeeded) \cup {p \in PlayerIds : EventsOfPlayer(p) # {}}
    /\ \A p \in DOMAIN players :
          /\ players[p].player_id = p
          /\ players[p].name = IF p \in 1..MaxSeeded THEN "seeded" ELSE "unknown"
          /\ EventsOfPlayer(p) = {} => players[p] = Player(p, "seeded")

\* What one applied event does to the registry: no player leaves it, only the
\* event's player changes, a player entering it is the default player with
\* this one event applied, and a player already in it keeps its accumulated
\* balance and inventory.
RegistryStep ==
    applied_log' # applied_log =>
        LET e == applied_log'[Len(applied_log')].event
            kind == applied_log'[Len(applied_log')].kind
            p == e.player_id
            old == IF p \in DOMAIN players THEN players[p] ELSE Player(p, "unknown")
        IN /\ DOMAIN players \subseteq DOMAIN players'
           /\ DOMAIN players' = DOMAIN players \cup {p}
           /\ \A q \in DOMAIN players : q # p => players'[q] = players[q]
           /\ players'[p].name = old.name
           /\ players'[p].player_id = p
           /\ kind = "money" =>
                 /\ players'[p].inventory = old.inventory
                 /\ players'[p].money = old.money +
                       (IF e.action = "MONEY_ADD" THEN e.amount ELSE -e.amount)
           /\ kind = "inventory" =>
                 /\ players'[p].money = old.money
                 /\ \A t \in Items :
                       get_item_count(players'[p], t) = get_item_count(old, t) +
                           NetOf(e.items, t, IF e.action = "ITEM_ADD" THEN 1 ELSE -1)

\* C14: the registry holds exactly one Player per player_id of the seed data
\* or of an applied event, created with the defaults on first reference,
\* found again with its accumulated state on later references, and never
\* removed or replaced.
C14_OnePlayerPerId ==
    /\ []RegistryMatchesHistory
    /\ [][RegistryStep]_vars

\* The seeded player and a player created on demand, the latter after a
\* money event and a later inventory event.
C14_Witness ==
    /\ DOMAIN players = PlayerIds
    /\ \E p \in PlayerIds \ (1..MaxSeeded) :
          /\ players[p].name = "unknown"
          /\ players[p].money # 0
          /\ players[p].inventory # EmptyDict
          /\ \E q \in 1..MaxSeeded : players[q].money # 0

\* --------------------------------------------- properties of the readers
\* The lines among the first n of the file that the parser accepts.
AcceptedUpTo(n) ==
    {j \in 1..n : parse_by_kind(reader_kind, reader_file[j], j) # None}

\* C15: a stream reader yields exactly the events of the accepted lines, in
\* file order, each with its 1-based line number; a rejected or blank line
\* yields nothing and does not keep a later accepted line from being yielded.
C15_YieldsAcceptedLinesInOrder ==
    reader_kind # "none" =>
        /\ reader_iter.pos <= Len(reader_file)
        /\ reader_iter.finished => reader_iter.pos = Len(reader_file)
        /\ Len(yielded) = Cardinality(AcceptedUpTo(reader_iter.pos))
        /\ \A k \in DOMAIN yielded :
              /\ yielded[k].line_no \in AcceptedUpTo(reader_iter.pos)
              /\ yielded[k] = parse_by_kind(reader_kind,
                                  reader_file[yielded[k].line_no], yielded[k].line_no)
              /\ k > 1 => yielded[k - 1].line_no < yielded[k].line_no

\* A finished pass over three lines that yielded the first and the third,
\* the second being a line with a non-integer timestamp.
C15_Witness ==
    /\ reader_iter.finished
    /\ Len(reader_file) = 3
    /\ Len(yielded) = 2
    /\ yielded[1].line_no = 1
    /\ yielded[2].line_no = 3
    /\ reader_file[2].shape = "inventory"
    /\ reader_file[2].timestamp = "x"

\* The line number of the last yielded event, 0 before the first.
LastYieldedLine ==
    IF yielded = <<>> THEN 0 ELSE yielded[Len(yielded)].line_no

\* C16 as stated: a request that yields an event consumes at most one line.
C16_AtMostOneLinePerRequest ==
    [][yielded' # yielded => reader_iter'.pos - reader_iter.pos <= 1]_vars

\* C16, amended: a request resumes at the line after the one that gave the
\* previous event, consumes the rejected lines up to the next accepted one and
\* that line, and yields its event without reading any line beyond it.
C16_ResumesAndReadsNoFurther ==
    /\ [](reader_kind # "none" /\ ~reader_iter.finished
              => reader_iter.pos = LastYieldedLine)
    /\ [][yielded' # yielded =>
             /\ reader_iter'.pos > reader_iter.pos
             /\ reader_iter'.pos = yielded'[Len(yielded')].line_no
             /\ \A j \in (reader_iter.pos + 1)..(reader_iter'.pos - 1) :
                   parse_by_kind(reader_kind, reader_file[j], j) = None]_vars

\* An event yielded from the second line by a request that passed a
\* rejected first line, with the third line left unread.
C16_Witness ==
    /\ Len(reader_file) = 3
    /\ Len(yielded) = 1
    /\ yielded[1].line_no = 2
    /\ reader_iter.pos = 2
    /\ ~reader_iter.finished
    /\ reader_file[1].shape = "other"

\* The texts of a blob that are not blank, in order.
RECURSIVE NonBlank(_)
NonBlank(items_blob) ==
    IF items_blob = <<>> THEN <<>>
    ELSE IF Head(items_blob) \in {"", " "} THEN NonBlank(Tail(items_blob))
    ELSE <<Head(items_blob)>> \o NonBlank(Tail(items_blob))

\* The inventory lines read so far whose part before the items is well formed.
HeaderOk ==
    {j \in 1..reader_iter.pos : InventoryLineMatches(reader_file[j])}

YieldedLines == {yielded[k].line_no : k \in DOMAIN yielded}

\* C17 as stated: every accepted line has an even number of comma-separated
\* tokens, each of them an integer.
C17_AllTokensEvenAndInteger ==
    reader_kind = "inventory" =>
        \A k \in DOMAIN yielded :
            LET blob == reader_file[yielded[k].line_no].items_blob IN
            /\ Len(blob) % 2 = 0
            /\ \A i \in DOMAIN blob : IsInt(blob[i])

\* C17, amended: a line with a well-formed header is accepted exactly when
\* its comma-separated tokens that are not blank are even in number and all
\* integers; the items of the event are then the consecutive pairs of those
\* tokens in written order, and a rejected line gives no event at all.
C17_NonBlankTokensEvenAndInteger ==
    reader_kind = "inventory" =>
        /\ \A j \in HeaderOk :
              LET tokens == NonBlank(reader_file[j].items_blob) IN
              j \in YieldedLines <=>
                  /\ Len(tokens) % 2 = 0
                  /\ \A i \in DOMAIN tokens : IsInt(tokens[i])
        /\ \A k \in DOMAIN yielded :
              LET tokens == NonBlank(reader_file[yielded[k].line_no].items_blob) IN
              /\ yielded[k].line_no \in HeaderOk
              /\ Len(yielded[k].items) * 2 = Len(tokens)
              /\ \A i \in DOMAIN yielded[k].items :
                    yielded[k].items[i] =
                        <<int(tokens[2 * i - 1]), int(tokens[2 * i])>>

\* An event of two different pairs from a line with a blank token among
\* its five.
C17_Witness ==
    /\ reader_kind = "inventory"
    /\ Len(yielded) = 1
    /\ Len(yielded[1].items) = 2
    /\ yielded[1].items[1] # yielded[1].items[2]
    /\ Len(reader_file[1].items_blob) = 5

\* C18: every InventoryEvent the inventory parser produces has a non-negative
\* amount in each of its pairs.
C18_AmountsNonNegative ==
    reader_kind = "inventory" =>
        \A k \in DOMAIN yielded :
            \A i \in DOMAIN yielded[k].items : yielded[k].items[i][2] >= 0

\* ------------------------------------------ termination of the merge loop
\* The merge is over with nothing pending, both readers exhausted and every
\* event of both logs written once.
MergedEverything ==
    LET inv == iter_events(inventory_file)
        mon == iter_events(money_file)
    IN /\ heap = {}
       /\ inventory_iter.finished
       /\ money_iter.finished
       /\ Len(handle) = Len(inv) + Len(mon)
       /\ \A k \in 1..Len(inv) : Occurrences("inventory", inv[k]) = 1
       /\ \A k \in 1..Len(mon) : Occurrences("money", mon[k]) = 1

\* C19: the merge loop eventually terminates; it ends exactly when the heap
\* is found empty, and then both sources are exhausted and every input event
\* has been written.
C19_MergeTerminates ==
    /\ <>(pc = "done")
    /\ [](pc = "done" => MergedEverything)
    /\ [][/\ (pc = "loop" /\ heap = {}) => pc' = "done"
          /\ (pc # "done" /\ pc' = "done") => (pc = "loop" /\ heap = {})]_vars

\* A finished merge of two logs of three events each.
C19_Witness ==
    /\ pc = "done"
    /\ Len(iter_events(inventory_file)) = 3
    /\ Len(iter_events(money_file)) = 3
    /\ Len(handle) = 6

\* -------------------------------------- properties of update_owner_count
BeforeCount(t) == DictGet(owner_call.before, t, 0)

\* C20: update_owner_count(item, previous, updated) adds one owner of the item
\* when previous <= 0 < updated, takes one away, never going below 0, when
\* updated <= 0 < previous, and otherwise changes nothing; the owner counts
\* of the other items never change.
C20_OwnerCountTransitions ==
    owner_call # NoCall =>
        LET item == owner_call.item
            previous == owner_call.previous
            updated == owner_call.updated
        IN /\ (previous <= 0 /\ updated > 0) =>
                  OwnerCount(item) = BeforeCount(item) + 1
           /\ (previous > 0 /\ updated <= 0) =>
                  OwnerCount(item) =
                      IF BeforeCount(item) = 0 THEN 0 ELSE BeforeCount(item) - 1
           /\ ~(previous <= 0 /\ updated > 0) /\ ~(previous > 0 /\ updated <= 0) =>
                  item_stats.owner_counts = owner_call.before
           /\ \A t \in Items \ {item} : OwnerCount(t) = BeforeCount(t)
           /\ \A t \in Items : OwnerCount(t) >= 0

\* A call for a holding that fell to zero while the item had no owner on
\* record and the other item had the most.
C20_Witness ==
    /\ owner_call # NoCall
    /\ owner_call.previous > 0
    /\ owner_call.updated <= 0
    /\ BeforeCount(owner_call.item) = 0
    /\ OwnerCount(owner_call.item) = 0
    /\ \E t \in Items \ {owner_call.item} : OwnerCount(t) = MaxOwners

\* ------------------------------------------- properties of single events
\* The event applied by the step, and its kind.
LastApplied == applied_log'[Len(applied_log')]

\* The player an event finds in the registry, the default one when absent.
PlayerBefore(p) ==
    IF p \in DOMAIN players THEN players[p] ELSE Player(p, "unknown")

\* C21: for every item affected by one apply_inventory call, the returned
\* triple has previous equal to the stored count before the call, updated
\* equal to the stored count after it, and delta = updated - previous equal
\* to the net signed amount the call applied to the item.
C21_TripleMatchesStoredCounts ==
    [][(applied_log' # applied_log /\ LastApplied.kind = "inventory") =>
          LET e == LastApplied.event
              changes == ChangesOf(players, e)
          IN \A t \in DOMAIN changes :
                /\ changes[t][2] = get_item_count(PlayerBefore(e.player_id), t)
                /\ changes[t][3] = get_item_count(players'[e.player_id], t)
                /\ changes[t][1] = changes[t][3] - changes[t][2]
                /\ changes[t][1] =
                      NetOf(e.items, t, IF e.action = "ITEM_ADD" THEN 1 ELSE -1)]_vars

\* C23: apply_money_event changes only the money, first_event_ts and
\* last_event_ts of the event's player, creating the player if absent; every
\* inventory, every other player and the item statistics stay as they were.
C23_MoneyEventFrame ==
    [][(applied_log' # applied_log /\ LastApplied.kind = "money") =>
          LET p == LastApplied.event.player_id IN
          /\ item_stats' = item_stats
          /\ DOMAIN players' = DOMAIN players \cup {p}
          /\ \A q \in DOMAIN players \ {p} : players'[q] = players[q]
          /\ players'[p] =
                [PlayerBefore(p) EXCEPT
                    !.money = players'[p].money,
                    !.first_event_ts = players'[p].first_event_ts,
                    !.last_event_ts = players'[p].last_event_ts]]_vars

\* A money event just applied that created its player, while another player
\* holds items and the statistics are not empty.
C23_Witness ==
    /\ Len(applied_log) >= 2
    /\ applied_log[Len(applied_log)].kind = "money"
    /\ LET p == applied_log[Len(applied_log)].event.player_id IN
       /\ p \notin 1..MaxSeeded
       /\ EventsOfPlayer(p) = {Len(applied_log)}
       /\ players[p].money # 0
       /\ \E q \in DOMAIN players \ {p} : players[q].inventory # EmptyDict
    /\ item_stats.first_seen_order # <<>>

\* ----------------------------------------- properties of the first_seen list
\* The inventory events were applied in non-decreasing timestamp order.
InventoryAppliedInOrder ==
    \A i, j \in DOMAIN applied_log :
        (i < j /\ applied_log[i].kind = "inventory" /\ applied_log[j].kind = "inventory")
            => applied_log[i].event.timestamp <= applied_log[j].event.timestamp

\* The timestamps of a list of (timestamp, item) pairs never decrease.
AscendingTime(pairs) ==
    \A k \in 1..(Len(pairs) - 1) : pairs[k][1] <= pairs[k + 1][1]

Entries(pairs) == {pairs[k] : k \in DOMAIN pairs}

\* C26: when the inventory events are applied in non-decreasing timestamp
\* order, the timestamps along first_seen never decrease, first_items(n) are
\* the n items seen earliest and last_items(n) the n items seen latest, each
\* in ascending time order.
C26_FirstSeenAscending ==
    InventoryAppliedInOrder =>
        LET seen == item_stats.first_seen_order IN
        /\ AscendingTime(seen)
        /\ \A n \in 1..MaxItem :
              LET size == IF n < Len(seen) THEN n ELSE Len(seen)
                  first == first_items(item_stats, n)
                  last == last_items(item_stats, n)
              IN /\ Len(first) = size
                 /\ Len(last) = size
                 /\ Cardinality(Entries(first)) = size
                 /\ Cardinality(Entries(last)) = size
                 /\ Entries(first) \subseteq Entries(seen)
                 /\ Entries(last) \subseteq Entries(seen)
                 /\ AscendingTime(first)
                 /\ AscendingTime(last)
                 /\ \A a \in Entries(first), b \in Entries(seen) \ Entries(first) :
                       a[1] <= b[1]
                 /\ \A a \in Entries(last), b \in Entries(seen) \ Entries(last) :
                       b[1] <= a[1]

\* Two items first seen at different times by inventory events applied in
\* timestamp order, the earlier item listed again later.
C26_Witness ==
    /\ InventoryAppliedInOrder
    /\ Len(item_stats.first_seen_order) = 2
    /\ item_stats.first_seen_order[1][1] < item_stats.first_seen_order[2][1]
    /\ Len(applied_log) = 3
    /\ 3 \in EventsListing(item_stats.first_seen_order[1][2])

\* ------------------------------------- properties of the interactive loop
\* The player lines among the lines written for the i-th input line.
PlayerRows(i) == SelectSeq(outstream[i], LAMBDA row : row.kind = "player")

\* The players holding more than zero of the item.
HoldersOf(item) == {q \in DOMAIN players : get_item_count(players[q], item) > 0}

\* C22: for an integer query the player lines are exactly the holders of the
\* item, cut to the first 10 after sorting by descending count and then
\* ascending player_id; a non-integer query gives one error line echoing the
\* input, and the queries after it are answered.
C22_TopTenHolders ==
    /\ Len(outstream) = Len(instream)
    /\ \A i \in DOMAIN outstream :
          LET line == strip(instream[i])
              rows == PlayerRows(i)
          IN /\ (line # "" /\ ~IsInt(line)) =>
                    outstream[i] = <<[kind |-> "error", text |-> line]>>
             /\ IsInt(line) =>
                    LET holders == HoldersOf(int(line)) IN
                    /\ Len(rows) = IF Cardinality(holders) < 10
                                   THEN Cardinality(holders) ELSE 10
                    /\ \A k \in DOMAIN rows :
                          /\ rows[k].player_id \in holders
                          /\ rows[k].name = players[rows[k].player_id].name
                          /\ rows[k].count =
                                get_item_count(players[rows[k].player_id], int(line))
                    /\ \A k \in 1..(Len(rows) - 1) :
                          \/ rows[k].count > rows[k + 1].count
                          \/ /\ rows[k].count = rows[k + 1].count
                             /\ rows[k].player_id < rows[k + 1].player_id
                    /\ \A q \in holders \ {rows[k].player_id : k \in DOMAIN rows} :
                          \A k \in DOMAIN rows :
                              \/ rows[k].count > get_item_count(players[q], int(line))
                              \/ /\ rows[k].count = get_item_count(players[q], int(line))
                                 /\ rows[k].player_id < q

\* Eleven holders with different counts, an error line for the first input
\* and ten player lines for the second.
C22_Witness ==
    /\ Len(outstream) = 2
    /\ Len(outstream[1]) = 1
    /\ outstream[1][1].kind = "error"
    /\ Len(PlayerRows(2)) = 10
    /\ Cardinality(HoldersOf(1)) = 11
    /\ PlayerRows(2)[1].count > PlayerRows(2)[10].count
    /\ \E k \in 1..9 : PlayerRows(2)[k].player_id > PlayerRows(2)[k + 1].player_id

\* ------------------------------------------- properties of the pipeline
\* Both passes of run_pipeline are over.
PassesDone ==
    /\ pc = "pipeline"
    /\ applied = Len(pipe_inventory) + Len(pipe_money)

\* A player record without its activity timestamps.
WithoutActivity(player) ==
    [player EXCEPT !.first_event_ts = NoneTs, !.last_event_ts = NoneTs]

\* C24: applying all inventory events and then all money events gives the
\* same balances, inventories, totals, owner counts, mentions and first_seen
\* list as applying the same events one by one in the merged order; only
\* first_event_ts and last_event_ts of the players can differ.
C24_TwoPassesEqualMergedOrder ==
    (PassesDone /\ merged.applied = applied) =>
        /\ DOMAIN players = DOMAIN merged.players
        /\ \A q \in DOMAIN players :
              WithoutActivity(players[q]) = WithoutActivity(merged.players[q])
        /\ item_stats.totals = merged.item_stats.totals
        /\ item_stats.owner_counts = merged.item_stats.owner_counts
        /\ item_stats.mentions = merged.item_stats.mentions
        /\ item_stats.first_seen_order = merged.item_stats.first_seen_order

\* Two logs of two events each whose merged order is not the order of the
\* two passes, with two items seen, a balance changed and a player whose
\* first_event_ts differs between the two orders.
C24_Witness ==
    /\ PassesDone
    /\ merged.applied = applied
    /\ Len(pipe_inventory) = 2
    /\ Len(pipe_money) = 2
    /\ merged_order(pipe_inventory, pipe_money) # applied_log
    /\ Len(item_stats.first_seen_order) = 2
    /\ \E q \in DOMAIN players :
          /\ players[q].money # 0
          /\ players[q].first_event_ts # merged.players[q].first_event_ts

\* The timestamps of a player's events, in either log.
TimestampsOfPlayer(q) ==
    {applied_log[i].event.timestamp : i \in EventsOfPlayer(q)}

\* C25: after both passes over logs that are each non-decreasing in
\* timestamp, every player with an applied event has first_event_ts <=
\* last_event_ts, the smallest and the largest timestamp of its events.
C25_FirstNotAfterLast ==
    (/\ PassesDone
     /\ NonDecreasing(pipe_inventory)
     /\ NonDecreasing(pipe_money)) =>
        \A q \in DOMAIN players :
            EventsOfPlayer(q) # {} =>
                /\ players[q].first_event_ts <= players[q].last_event_ts
                /\ players[q].first_event_ts = SetMin(TimestampsOfPlayer(q))
                /\ players[q].last_event_ts = SetMax(TimestampsOfPlayer(q))

====
